---------------------------- MODULE Spec2Model ----------------------------
(***************************************************************************)
(* A* search for the sliding-tile puzzle of HW2_InformedSearch.py.         *)
(*                                                                         *)
(* The source fixes the board width N = 5 (the 24-puzzle).  Its 25! board  *)
(* states are out of reach of explicit-state checking, so the model takes  *)
(* N = 3, the smallest odd width with a non-trivial board; every           *)
(* definition below is written in terms of N and SIZE exactly as the       *)
(* source is.  Python indices are 0-based: cell i of a state is            *)
(* state[i + 1] here, and At(state, i) reads it.                           *)
(***************************************************************************)
EXTENDS Integers, Sequences, FiniteSets, TLC

\* ---------------------------------------------------------------- bounds
\* Start states are drawn from the boards at most MaxDist moves from GOAL
\* and from their unsolvable twins.
MaxDist == 8
\* A run is followed for at most MaxExpanded expansions.
MaxExpanded == 50
\* Two calls are compared on the start states at most MaxPairDist moves
\* from GOAL.
MaxPairDist == 5
\* Shortest distances from start are computed for the boards at most
\* MaxBall moves from it.
MaxBall == 10

\* ------------------------------------------------------ global constants
N == 3
SIZE == N * N

Cells == 0 .. (SIZE - 1)

At(state, i) == state[i + 1]

GOAL == [i \in 1 .. SIZE |-> IF i < SIZE THEN i ELSE 0]

GOAL_POS ==
  [tile \in Cells |->
     LET i == CHOOSE k \in Cells : At(GOAL, k) = tile
     IN  <<i \div N, i % N>>]

\* ---------------------------------------------------- solvability check
RECURSIVE CountInv(_, _, _)

\* a double loop whose inner range stops one element early
CountInv_inner_short(arr, i, j) ==
  IF i > Len(arr) THEN 0
  ELSE IF j > Len(arr) - 1 THEN CountInv(arr, i + 1, i + 2)
  ELSE (IF arr[i] > arr[j] THEN 1 ELSE 0) + CountInv(arr, i, j + 1)

\* the double loop of inversion_count over arr, from the pair (i, j) on
CountInv(arr, i, j) ==
  IF i > Len(arr) THEN 0
  ELSE IF j > Len(arr) THEN CountInv(arr, i + 1, i + 2)
  ELSE (IF arr[i] > arr[j] THEN 1 ELSE 0) + CountInv(arr, i, j + 1)

\* an inversion_count that forgets to drop the blank
inversion_count_with_blank(state) == CountInv(state, 1, 2)

inversion_count(state) ==
  LET arr == SelectSeq(state, LAMBDA x : x # 0)
  IN  CountInv(arr, 1, 2)

is_solvable(state) == inversion_count(state) % 2 = 0

\* ------------------------------------------------------------ heuristics
Abs(x) == IF x < 0 THEN -x ELSE x

RECURSIVE SumOver(_, _)
\* sum of term[i] for i in 0 .. n - 1
SumOver(term, n) == IF n = 0 THEN 0 ELSE term[n - 1] + SumOver(term, n - 1)

\* an h1_misplaced that forgets to exclude the blank
h1_misplaced_with_blank(state) ==
  SumOver([i \in Cells |-> IF At(state, i) # At(GOAL, i) THEN 1 ELSE 0],
          SIZE)

h1_misplaced(state) ==
  SumOver([i \in Cells |->
             IF At(state, i) # 0 /\ At(state, i) # At(GOAL, i) THEN 1 ELSE 0],
          SIZE)

\* an h2_manhattan that weighs every distance twice
h2_manhattan_doubled(state) ==
  SumOver([index \in Cells |->
             LET tile == At(state, index)
                 r == index \div N
                 c == index % N
             IN  IF tile = 0 THEN 0
                 ELSE 2 * (Abs(r - GOAL_POS[tile][1])
                             + Abs(c - GOAL_POS[tile][2]))],
          SIZE)

\* an h2_manhattan that forgets to skip the blank
h2_manhattan_with_blank(state) ==
  SumOver([index \in Cells |->
             LET tile == At(state, index)
                 r == index \div N
                 c == index % N
             IN  Abs(r - GOAL_POS[tile][1]) + Abs(c - GOAL_POS[tile][2])],
          SIZE)

h2_manhattan(state) ==
  SumOver([index \in Cells |->
             LET tile == At(state, index)
                 r == index \div N
                 c == index % N
             IN  IF tile = 0 THEN 0
                 ELSE Abs(r - GOAL_POS[tile][1]) + Abs(c - GOAL_POS[tile][2])],
          SIZE)

Heuristics == {"h1_misplaced", "h2_manhattan"}

\* the heuristic the caller selected, applied to a state
ApplyHeuristic(name, state) ==
  IF name = "h1_misplaced" THEN h1_misplaced(state) ELSE h2_manhattan(state)

\* -------------------------------------------------- successor generation
\* a swap that takes the row for the column
swap_transposed(state, blank_index, nr, nc, direction) ==
  LET new_index == nc * N + nr
  IN  [state |-> [k \in 1 .. SIZE |->
                    IF k = blank_index + 1 THEN At(state, new_index)
                    ELSE IF k = new_index + 1 THEN At(state, blank_index)
                    ELSE state[k]],
       blank |-> new_index,
       move |-> direction]

\* the inner function swap of generate_successors
swap(state, blank_index, nr, nc, direction) ==
  LET new_index == nr * N + nc
  IN  [state |-> [k \in 1 .. SIZE |->
                    IF k = blank_index + 1 THEN At(state, new_index)
                    ELSE IF k = new_index + 1 THEN At(state, blank_index)
                    ELSE state[k]],
       blank |-> new_index,
       move |-> direction]

\* a generate_successors whose test for Down is "r > N - 1": never true
generate_successors_no_down(state, blank_index) ==
  LET r == blank_index \div N
      c == blank_index % N
  IN  (IF r > 0 THEN <<swap(state, blank_index, r - 1, c, "U")>> ELSE <<>>)
      \o (IF c > 0 THEN <<swap(state, blank_index, r, c - 1, "L")>> ELSE <<>>)
      \o (IF c < N - 1 THEN <<swap(state, blank_index, r, c + 1, "R")>> ELSE <<>>)

generate_successors(state, blank_index) ==
  LET r == blank_index \div N
      c == blank_index % N
  IN  (IF r > 0 THEN <<swap(state, blank_index, r - 1, c, "U")>> ELSE <<>>)
      \o (IF r < N - 1 THEN <<swap(state, blank_index, r + 1, c, "D")>> ELSE <<>>)
      \o (IF c > 0 THEN <<swap(state, blank_index, r, c - 1, "L")>> ELSE <<>>)
      \o (IF c < N - 1 THEN <<swap(state, blank_index, r, c + 1, "R")>> ELSE <<>>)

\* start.index(0)
IndexOf(state, v) == CHOOSE i \in Cells : At(state, i) = v

\* ------------------------------------------------------------ start states
Successors(state) ==
  LET succ == generate_successors(state, IndexOf(state, 0))
  IN  {succ[k].state : k \in 1 .. Len(succ)}

RECURSIVE Within(_, _)
\* the boards at most k moves away from the boards in S
Within(S, k) ==
  IF k = 0 THEN S
  ELSE LET R == Within(S, k - 1) IN R \cup UNION {Successors(s) : s \in R}

\* the board s with the tiles 1 and 2 exchanged
Twin(s) ==
  [k \in 1 .. SIZE |-> IF s[k] = 1 THEN 2 ELSE IF s[k] = 2 THEN 1 ELSE s[k]]

NearGoal == Within({GOAL}, MaxDist)

Starts == NearGoal \cup {Twin(s) : s \in NearGoal}

\* ------------------------------------------------------------------ astar
VARIABLES
  start,         \* argument start
  heuristic,     \* argument heuristic, by name
  open_list,     \* the heap, as the set of its PriorityNode entries
  nodes,         \* the Node objects created so far, by identity
  best_g,        \* dict state -> lowest g enqueued
  expanded,
  generated,
  max_frontier,
  counter,
  status,        \* "running" until astar returns, then stats["status"]
  result,        \* the node astar returns: a node identity, or -1 for None
  peak,          \* history: the largest len(open_list) after any heappush
                 \* or heappop so far
  \* a board that generate_successors is applied to, move after move
  board,         \* argument state
  succs,         \* the list generate_successors returned for board
  measured,      \* what inversion_count, is_solvable, h1_misplaced and
                 \* h2_manhattan returned for board
  \* generate_successors applied level by level to all boards around a root
  root,
  depth,         \* number of moves from root to the boards of frontier
  seen,          \* the boards at most depth moves from root
  frontier,      \* the boards exactly depth moves from root
  \* a second call of astar with the same start and heuristic: the record
  \* of its open_list, nodes, best_g, expanded, generated, max_frontier,
  \* counter, status and result
  second

astar_vars == <<start, heuristic, open_list, nodes, best_g, expanded,
                generated, max_frontier, counter, status, result, peak>>

walk_vars == <<board, succs, measured>>

flood_vars == <<root, depth, seen, frontier>>

vars == <<astar_vars, walk_vars, flood_vars, second>>

\* @dataclass Node; parent is a node identity, -1 for None
Node(state, blank_index, g, h, parent, move) ==
  [state |-> state, blank_index |-> blank_index, g |-> g, h |-> h,
   parent |-> parent, move |-> move]

\* a Node.f that forgets the cost so far
NodeF_OnlyH(node) == node.h

\* the property Node.f
NodeF(node) == node.g + node.h

\* @dataclass(order=True) PriorityNode; node is excluded from comparison
PriorityNode(f, cnt, node) == [f |-> f, counter |-> cnt, node |-> node]

\* an order that breaks ties of f by the latest push
PriorityLess_latest_first(a, b) ==
  a.f < b.f \/ (a.f = b.f /\ a.counter > b.counter)

\* a PriorityNode order that leaves the counter out of the comparison
PriorityLess_f_only(a, b) == a.f < b.f

\* the generated __lt__ of PriorityNode: (f, counter) compared as a tuple
PriorityLess(a, b) == a.f < b.f \/ (a.f = b.f /\ a.counter < b.counter)

\* the entries heapq.heappop may remove: those no entry of the heap is less
\* than (one entry, as long as no two entries compare equal)
HeapLeast(heap) == {e \in heap : \A o \in heap : ~PriorityLess(o, e)}

\* an entry into the loop that does not count the start node as generated
EnterLoop_start_not_counted ==
  /\ nodes = [id \in {0} |->
                Node(start, IndexOf(start, 0), 0,
                     ApplyHeuristic(heuristic, start), -1, "None")]
  /\ open_list = {PriorityNode(NodeF(nodes[0]), 0, 0)}
  /\ best_g = [s \in {start} |-> 0]
  /\ expanded = 0
  /\ generated = 0
  /\ max_frontier = 1
  /\ counter = 1
  /\ status = "running"
  /\ result = -1
  /\ peak = 1

\* the state of astar when it enters its loop
EnterLoop ==
  /\ nodes = [id \in {0} |->
                Node(start, IndexOf(start, 0), 0,
                     ApplyHeuristic(heuristic, start), -1, "None")]
  /\ open_list = {PriorityNode(NodeF(nodes[0]), 0, 0)}
  /\ best_g = [s \in {start} |-> 0]
  /\ expanded = 0
  /\ generated = 1
  /\ max_frontier = 1
  /\ counter = 1
  /\ status = "running"
  /\ result = -1
  /\ peak = 1

\* no board is being walked
WalkIdle == board = GOAL /\ succs = <<>> /\ measured = <<>>

\* no flood is under way
FloodIdle == root = GOAL /\ depth = 0 /\ seen = {} /\ frontier = {}

\* there is no second call
NoSecond == second = <<>>

Init ==
  /\ start \in Starts
  /\ heuristic \in Heuristics
  /\ EnterLoop
  /\ WalkIdle
  /\ FloodIdle
  /\ NoSecond

\* a new_g that forgets the edge
NewG_NoEdge(current) == current.g

\* new_g = current.g + 1
NewG(current) == current.g + 1

\* a skip test with the comparison turned round
SkipSuccessor_reversed(bg, new_state, new_g) ==
  new_state \in DOMAIN bg /\ bg[new_state] >= new_g

\* a test that skips every state that has an entry, whatever its cost
SkipSuccessor_known(bg, new_state, new_g) == new_state \in DOMAIN bg

\* a successor loop without the test for a better path
SkipSuccessor_never(bg, new_state, new_g) == FALSE

\* "Skip if we have a better path already"
SkipSuccessor(bg, new_state, new_g) ==
  new_state \in DOMAIN bg /\ bg[new_state] <= new_g

RECURSIVE PushSuccessors(_, _, _, _, _)
\* the for loop of astar over the successors succ[k ..] of the node cur:
\* acc holds open_list, nodes, best_g, counter, generated and peak as they
\* stand
PushSuccessors(succ, k, cur, h, acc) ==
  IF k > Len(succ) THEN acc
  ELSE
    LET new_state == succ[k].state
        new_g == NewG(acc.nodes[cur])
    IN  IF SkipSuccessor(acc.best_g, new_state, new_g)
        THEN PushSuccessors(succ, k + 1, cur, h, acc)
        ELSE
          LET new_node == Node(new_state, succ[k].blank, new_g,
                               ApplyHeuristic(h, new_state), cur, succ[k].move)
          IN  PushSuccessors(succ, k + 1, cur, h,
                [best_g |-> [s \in DOMAIN acc.best_g \cup {new_state} |->
                               IF s = new_state THEN new_g ELSE acc.best_g[s]],
                 nodes |-> [id \in DOMAIN acc.nodes \cup {acc.counter} |->
                              IF id = acc.counter THEN new_node ELSE acc.nodes[id]],
                 open_list |-> acc.open_list
                                 \cup {PriorityNode(NodeF(new_node), acc.counter,
                                                    acc.counter)},
                 counter |-> acc.counter + 1,
                 generated |-> acc.generated + 1,
                 peak |-> IF Cardinality(acc.open_list) + 1 > acc.peak
                          THEN Cardinality(acc.open_list) + 1
                          ELSE acc.peak])

\* the length of the heap instead of the larger of the two
Max_latest(a, b) == b

Max(a, b) == IF a > b THEN a ELSE b

\* a timeout check placed after the pop: the popped node is lost, or is
\* returned when it is a goal node
TimeoutReturn_after_pop ==
  /\ status = "running"
  /\ open_list # {}
  /\ \E top \in HeapLeast(open_list) :
       /\ open_list' = open_list \ {top}
       /\ result' = IF nodes[top.node].state = GOAL THEN top.node ELSE -1
  /\ status' = "timeout"
  /\ UNCHANGED <<start, heuristic, nodes, best_g, expanded,
                 generated, max_frontier, counter, peak>>
  /\ UNCHANGED <<walk_vars, flood_vars, second>>

\* the timeout check at the top of an iteration fires
TimeoutReturn ==
  /\ status = "running"
  /\ open_list # {}
  /\ status' = "timeout"
  /\ result' = -1
  /\ UNCHANGED <<start, heuristic, open_list, nodes, best_g, expanded,
                 generated, max_frontier, counter, peak>>
  /\ UNCHANGED <<walk_vars, flood_vars, second>>

\* an iteration that pops a node whose state is GOAL
GoalReturn ==
  /\ status = "running"
  /\ open_list # {}
  /\ \E top \in HeapLeast(open_list) :
       /\ nodes[top.node].state = GOAL
       /\ open_list' = open_list \ {top}
       /\ result' = top.node
  /\ status' = "success"
  /\ UNCHANGED <<start, heuristic, nodes, best_g, expanded, generated,
                 max_frontier, counter, peak>>
  /\ UNCHANGED <<walk_vars, flood_vars, second>>

\* an iteration that pops a node and expands it; when that leaves the heap
\* empty the while condition fails next and astar returns "failure"
Expand ==
  /\ status = "running"
  /\ open_list # {}
  /\ expanded < MaxExpanded
  /\ \E top \in HeapLeast(open_list) :
       LET current == top.node
           acc == PushSuccessors(
                    generate_successors(nodes[current].state,
                                        nodes[current].blank_index),
                    1, current, heuristic,
                    [best_g |-> best_g, nodes |-> nodes,
                     open_list |-> open_list \ {top},
                     counter |-> counter, generated |-> generated,
                     peak |-> peak])
       IN  /\ nodes[current].state # GOAL
           /\ expanded' = expanded + 1
           /\ best_g' = acc.best_g
           /\ nodes' = acc.nodes
           /\ open_list' = acc.open_list
           /\ counter' = acc.counter
           /\ generated' = acc.generated
           /\ peak' = acc.peak
           /\ max_frontier' = Max(max_frontier, Cardinality(acc.open_list))
           /\ status' = IF acc.open_list = {} THEN "failure" ELSE "running"
  /\ UNCHANGED <<start, heuristic, result>>
  /\ UNCHANGED <<walk_vars, flood_vars, second>>

Next == TimeoutReturn \/ GoalReturn \/ Expand

Spec == Init /\ [][Next]_vars

\* astar is sequential code: while it has not returned, its loop takes
\* another iteration
FairSpec == Spec /\ WF_vars(Next)

\* ------------------------------------------------ two calls of astar
\* the first call as a record, field by field like second
First ==
  [open_list |-> open_list, nodes |-> nodes, best_g |-> best_g,
   expanded |-> expanded, generated |-> generated,
   max_frontier |-> max_frontier, counter |-> counter,
   status |-> status, result |-> result, peak |-> peak]

PairStarts == Within({GOAL}, MaxPairDist)

\* both calls have entered their loops
PairInit ==
  /\ start \in PairStarts
  /\ heuristic \in Heuristics
  /\ EnterLoop
  /\ second = First
  /\ WalkIdle
  /\ FloodIdle

\* TimeoutReturn, in the second call
SecondTimeoutReturn ==
  /\ second.status = "running"
  /\ second.open_list # {}
  /\ second' = [second EXCEPT !.status = "timeout", !.result = -1]
  /\ UNCHANGED <<astar_vars, walk_vars, flood_vars>>

\* GoalReturn, in the second call
SecondGoalReturn ==
  /\ second.status = "running"
  /\ second.open_list # {}
  /\ \E top \in HeapLeast(second.open_list) :
       /\ second.nodes[top.node].state = GOAL
       /\ second' = [second EXCEPT !.open_list = second.open_list \ {top},
                                   !.result = top.node,
                                   !.status = "success"]
  /\ UNCHANGED <<astar_vars, walk_vars, flood_vars>>

\* Expand, in the second call
SecondExpand ==
  /\ second.status = "running"
  /\ second.open_list # {}
  /\ second.expanded < MaxExpanded
  /\ \E top \in HeapLeast(second.open_list) :
       LET current == top.node
           acc == PushSuccessors(
                    generate_successors(second.nodes[current].state,
                                        second.nodes[current].blank_index),
                    1, current, heuristic,
                    [best_g |-> second.best_g, nodes |-> second.nodes,
                     open_list |-> second.open_list \ {top},
                     counter |-> second.counter,
                     generated |-> second.generated,
                     peak |-> second.peak])
       IN  /\ second.nodes[current].state # GOAL
           /\ second' =
                [open_list |-> acc.open_list, nodes |-> acc.nodes,
                 best_g |-> acc.best_g, expanded |-> second.expanded + 1,
                 generated |-> acc.generated,
                 max_frontier |-> Max(second.max_frontier,
                                      Cardinality(acc.open_list)),
                 counter |-> acc.counter,
                 status |-> IF acc.open_list = {} THEN "failure" ELSE "running",
                 result |-> second.result,
                 peak |-> acc.peak]
  /\ UNCHANGED <<astar_vars, walk_vars, flood_vars>>

\* the calls do not share state, so the order of their iterations is
\* immaterial: they take turns, the call with fewer expansions first
FirstTurn == second.status # "running" \/ expanded <= second.expanded

PairNext ==
  \/ FirstTurn /\ TimeoutReturn
  \/ FirstTurn /\ GoalReturn
  \/ FirstTurn /\ Expand
  \/ (status # "running" \/ ~FirstTurn) /\ SecondTimeoutReturn
  \/ (status # "running" \/ ~FirstTurn) /\ SecondGoalReturn
  \/ (status # "running" \/ ~FirstTurn) /\ SecondExpand

PairSpec == PairInit /\ [][PairNext]_vars

\* ------------------------------------- generate_successors, board by board
\* astar is not running
AstarIdle ==
  /\ start = GOAL
  /\ heuristic = "h1_misplaced"
  /\ open_list = {}
  /\ nodes = <<>>
  /\ best_g = <<>>
  /\ expanded = 0
  /\ generated = 0
  /\ max_frontier = 0
  /\ counter = 0
  /\ status = "idle"
  /\ result = -1
  /\ peak = 0

\* the solvability check and the two heuristics applied to one board
Measure(state) ==
  [inversions |-> inversion_count(state),
   solvable   |-> is_solvable(state),
   h1         |-> h1_misplaced(state),
   h2         |-> h2_manhattan(state)]

\* the walk starts on GOAL or on its twin, one board of each parity
WalkInit ==
  /\ board \in {GOAL, Twin(GOAL)}
  /\ succs = generate_successors(board, IndexOf(board, 0))
  /\ measured = Measure(board)
  /\ AstarIdle
  /\ FloodIdle
  /\ NoSecond

\* take the k-th successor as the next board and generate its successors
Move(k) ==
  /\ k <= Len(succs)
  /\ board' = succs[k].state
  /\ succs' = generate_successors(succs[k].state, succs[k].blank)
  /\ measured' = Measure(succs[k].state)
  /\ UNCHANGED <<astar_vars, flood_vars, second>>

WalkNext == \E k \in 1 .. 4 : Move(k)

WalkSpec == WalkInit /\ [][WalkNext]_vars

\* ------------------------------- generate_successors, level by level
\* the board with the tiles in order and the blank in cell c
InOrder(c) ==
  [k \in 1 .. SIZE |-> IF k - 1 < c THEN k ELSE IF k - 1 = c THEN 0 ELSE k - 1]

\* the roots: GOAL, the ordered board with the blank in the middle, and
\* their twins of the other parity
FloodRoots ==
  LET mid == InOrder((SIZE - 1) \div 2)
  IN  {GOAL, Twin(GOAL), mid, Twin(mid)}

\* the state of the k-th entry of a list generate_successors returned, or
\* of its first entry when there are fewer
Pick(succ, k) == IF k <= Len(succ) THEN succ[k].state ELSE succ[1].state

FloodInit ==
  /\ root \in FloodRoots
  /\ depth = 0
  /\ seen = {root}
  /\ frontier = {root}
  /\ AstarIdle
  /\ WalkIdle
  /\ NoSecond

\* one more move from every board of the frontier
FloodStep ==
  /\ frontier # {}
  /\ LET lists == {generate_successors(s, IndexOf(s, 0)) : s \in frontier}
         new == {Pick(p[1], p[2]) : p \in lists \X (1 .. 4)} \ seen
     IN  /\ frontier' = new
         /\ seen' = seen \cup new
  /\ depth' = depth + 1
  /\ UNCHANGED <<root, astar_vars, walk_vars, second>>

FloodSpec == FloodInit /\ [][FloodStep]_vars

\* ------------------------------------------------------ path reconstruction
RECURSIVE reconstruct_path_unreversed(_, _)
\* a reconstruct_path without the final reversal
reconstruct_path_unreversed(ns, id) ==
  IF ns[id].parent = -1 THEN <<>>
  ELSE <<ns[id].move>> \o reconstruct_path_unreversed(ns, ns[id].parent)

RECURSIVE reconstruct_path_with_start(_, _)
\* a reconstruct_path whose loop runs "while node" and so keeps the start node
reconstruct_path_with_start(ns, id) ==
  IF id = -1 THEN <<>>
  ELSE Append(reconstruct_path_with_start(ns, ns[id].parent), ns[id].move)

RECURSIVE reconstruct_path(_, _)
\* the moves from the start node to the node id, in the arena ns
reconstruct_path(ns, id) ==
  IF ns[id].parent = -1 THEN <<>>
  ELSE Append(reconstruct_path(ns, ns[id].parent), ns[id].move)

\* the moves astar's caller gets on success
ReturnedPath == reconstruct_path(nodes, result)

\* ------------------------------------------------------------------ claims

\* C1 (optimality): when astar returns "success", the g of the returned node
\* and the length of its reconstructed path equal the least number of legal
\* blank moves from start to GOAL: GOAL is among the boards at most g moves
\* from start and not among those at most g - 1 moves from it.
C1_Optimal ==
  status = "success" =>
    LET g == nodes[result].g
    IN  /\ Len(ReturnedPath) = g
        /\ GOAL \in Within({start}, g)
        /\ g > 0 => GOAL \notin Within({start}, g - 1)

\* a run that had to look beyond the solution path and returned a long one
C1_Witness ==
  /\ status = "success"
  /\ nodes[result].g = MaxDist
  /\ expanded > 2 * MaxDist

\* a start one move from GOAL solved in one move
C1_WitnessOneMove ==
  /\ status = "success"
  /\ GOAL \in Successors(start)
  /\ Len(ReturnedPath) = 1

\* ---- replaying a move sequence, independently of generate_successors
Labels == {"U", "D", "L", "R"}

RowStep(label) == IF label = "U" THEN -1 ELSE IF label = "D" THEN 1 ELSE 0
ColStep(label) == IF label = "L" THEN -1 ELSE IF label = "R" THEN 1 ELSE 0

\* the blank of the board brd can move one cell in the direction label
Legal(brd, label) ==
  LET b == IndexOf(brd, 0)
  IN  /\ label \in Labels
      /\ (b \div N) + RowStep(label) \in 0 .. (N - 1)
      /\ (b % N) + ColStep(label) \in 0 .. (N - 1)

\* the board brd after its blank moved one cell in the direction label
Slide(brd, label) ==
  LET b == IndexOf(brd, 0)
      t == b + N * RowStep(label) + ColStep(label)
  IN  [k \in 1 .. SIZE |->
         IF k = b + 1 THEN brd[t + 1] ELSE IF k = t + 1 THEN 0 ELSE brd[k]]

RECURSIVE Replay(_, _)
\* the board after the moves, or <<>> when one of them is not legal
Replay(brd, moves) ==
  IF moves = <<>> THEN brd
  ELSE IF ~Legal(brd, Head(moves)) THEN <<>>
  ELSE Replay(Slide(brd, Head(moves)), Tail(moves))

\* C2 (path validity): when astar returns "success", the moves of
\* reconstruct_path, applied one after another to the start state, are all
\* labels U/D/L/R, are legal at every step and end exactly in GOAL.
C2_PathValid ==
  status = "success" =>
    /\ \A i \in 1 .. Len(ReturnedPath) : ReturnedPath[i] \in Labels
    /\ Replay(start, ReturnedPath) = GOAL

\* a returned path of several moves that is not a palindrome of labels
C2_Witness ==
  /\ status = "success"
  /\ Len(ReturnedPath) >= 4
  /\ ReturnedPath[1] # ReturnedPath[Len(ReturnedPath)]

RECURSIVE ChainLength(_, _)
\* the number of parent links from node id back to a node without parent
ChainLength(ns, id) ==
  IF ns[id].parent = -1 THEN 0 ELSE 1 + ChainLength(ns, ns[id].parent)

\* C3: every node ever created has g equal to the length of its parent
\* chain (the start node has no parent and g = 0, every other node has
\* g = parent.g + 1), and on success the number of returned moves equals
\* the g of the returned node.
C3_GIsDepth ==
  /\ \A id \in DOMAIN nodes :
        /\ nodes[id].g = ChainLength(nodes, id)
        /\ IF nodes[id].parent = -1
             THEN id = 0 /\ nodes[id].g = 0 /\ nodes[id].state = start
             ELSE /\ nodes[id].parent \in DOMAIN nodes
                  /\ nodes[id].g = nodes[nodes[id].parent].g + 1
  /\ status = "success" => Len(ReturnedPath) = nodes[result].g

C3_Witness ==
  /\ status = "success"
  /\ nodes[result].g >= 3
  /\ \E id \in DOMAIN nodes \ {result} : nodes[id].g = nodes[result].g

\* C4 as claimed: with start = GOAL astar returns "success" with
\* expanded = 0 and an empty move sequence.
C4_Original ==
  (start = GOAL /\ status # "running") =>
    /\ status = "success"
    /\ expanded = 0
    /\ ReturnedPath = <<>>

\* C4 as amended: with start = GOAL astar returns in its first loop
\* iteration, with expanded = 0, generated = 1 and max_frontier = 1: either
\* "success" with the start node and an empty move sequence, or, when the
\* timeout check of that iteration fires, "timeout" with no node.
C4_GoalStart ==
  start = GOAL =>
    /\ expanded = 0 /\ generated = 1 /\ max_frontier = 1
    /\ status \in {"running", "success", "timeout"}
    /\ status = "running" => open_list = {PriorityNode(NodeF(nodes[0]), 0, 0)}
    /\ status = "success" => result = 0 /\ ReturnedPath = <<>>
    /\ status = "timeout" => result = -1

C4_Witness == start = GOAL /\ status = "success" /\ result = 0

\* C5 (completeness): for a start with is_solvable true, a run in which the
\* timeout never fires eventually returns "success", and "failure" is never
\* returned.  (The last conjunct states that such a run never meets the
\* bound MaxExpanded, so that it is the code that ends the run.)
C5_Complete ==
  /\ is_solvable(start) => ([](status # "timeout") => <>(status = "success"))
  /\ [](is_solvable(start) => status # "failure")
  /\ [](is_solvable(start) /\ status = "running" => expanded < MaxExpanded)

C5_Witness ==
  /\ is_solvable(start)
  /\ status = "success"
  /\ expanded >= 3 * MaxDist

RECURSIVE SumG(_, _)
\* the sum of bg over the states in S
SumG(bg, S) ==
  IF S = {} THEN 0
  ELSE LET s == CHOOSE x \in S : TRUE IN bg[s] + SumG(bg, S \ {s})

IsBoard(s) == DOMAIN s = 1 .. SIZE /\ {s[k] : k \in 1 .. SIZE} = Cells

\* an iteration brings the loop closer to its end: it records a board not
\* seen before (there are finitely many), or else lowers a recorded g, or
\* else only shrinks the frontier
LoopVariantDecreases ==
  LET known == Cardinality(DOMAIN best_g)
      knownAfter == Cardinality(DOMAIN best_g')
      sum == SumG(best_g, DOMAIN best_g)
      sumAfter == SumG(best_g', DOMAIN best_g')
  IN  /\ \A s \in DOMAIN best_g' : IsBoard(s)
      /\ \/ knownAfter > known
         \/ knownAfter = known /\ sumAfter < sum
         \/ /\ knownAfter = known /\ sumAfter = sum
            /\ Cardinality(open_list') < Cardinality(open_list)

\* a node pushed for a state already recorded has a strictly lower g
RepushedLower ==
  \A id \in DOMAIN nodes' \ DOMAIN nodes :
    nodes'[id].state \in DOMAIN best_g => nodes'[id].g < best_g[nodes'[id].state]

LegalLabels(b) == SelectSeq(<<"U", "D", "L", "R">>, LAMBDA l : Legal(b, l))

\* C10: generate_successors on a board returns between 2 and 4 results, in
\* the order Up, Down, Left, Right restricted to the directions that stay on
\* the grid; each result is a permutation of the same values that differs
\* from the input in exactly two cells, the blank and the grid-adjacent
\* cell in that direction, whose contents are exchanged, and it carries the
\* new blank index and the direction label.
C10_Successors ==
  LET b == IndexOf(board, 0)
  IN  /\ Len(succs) \in 2 .. 4
      /\ [k \in 1 .. Len(succs) |-> succs[k].move] = LegalLabels(board)
      /\ \A k \in 1 .. Len(succs) :
            LET t == succs[k].blank
                new == succs[k].state
            IN  /\ IsBoard(new)
                /\ {i \in Cells : At(new, i) # At(board, i)} = {b, t}
                /\ At(new, t) = 0 /\ At(new, b) = At(board, t)
                /\ t \div N = (b \div N) + RowStep(succs[k].move)
                /\ t % N = (b % N) + ColStep(succs[k].move)
                /\ new = Slide(board, succs[k].move)

\* a board with the blank on an edge, not a corner, far from GOAL
C10_Witness ==
  /\ status = "idle"
  /\ Len(succs) = 3
  /\ ~is_solvable(board)
  /\ h1_misplaced(board) = SIZE - 1

RECURSIVE Factorial(_)
Factorial(n) == IF n = 0 THEN 1 ELSE n * Factorial(n - 1)

\* every move made from a board of the frontier can be taken back, so a
\* board depth moves from root is also depth moves away from it
MovesReversible ==
  \A s \in frontier : \A t \in Successors(s) : s \in Successors(t)

\* C7 (the solvability check is exact): is_solvable(GOAL) is true; every
\* board reached from a root has the is_solvable value of the root, so
\* every successor keeps the value of its board; and when the flood from a
\* root ends it has seen half of the SIZE! boards.  The roots are of both
\* parities: the boards seen from GOAL and those seen from its twin are
\* disjoint halves, so the boards reachable from GOAL (and, moves being
\* reversible, the boards GOAL is reachable from) are exactly those with
\* is_solvable true.
C7_SolvableExact ==
  /\ is_solvable(GOAL)
  /\ \A s \in frontier : IsBoard(s) /\ is_solvable(s) = is_solvable(root)
  /\ root = GOAL => MovesReversible
  /\ frontier = {} /\ seen # {} => 2 * Cardinality(seen) = Factorial(SIZE)

\* the flood from the twin of GOAL is under way: boards several moves from
\* it, none of them solvable
C7_Witness ==
  /\ root = Twin(GOAL)
  /\ depth = SIZE
  /\ frontier # {}
  /\ \A s \in frontier : ~is_solvable(s)

\* C9 (admissibility): both heuristics are 0 on GOAL, and for every board
\* exactly depth moves from GOAL, which is the least number of moves from
\* that board to GOAL, both are at most depth.
C9_Admissible ==
  /\ h1_misplaced(GOAL) = 0 /\ h2_manhattan(GOAL) = 0
  /\ root = GOAL =>
       /\ MovesReversible
       /\ \A s \in frontier : h1_misplaced(s) <= depth /\ h2_manhattan(s) <= depth

\* far from GOAL, a board on which h2_manhattan is exact and h1_misplaced
\* is not
C9_Witness ==
  /\ root = GOAL
  /\ depth >= SIZE
  /\ \E s \in frontier : h2_manhattan(s) = depth /\ h1_misplaced(s) < depth

\* the moves the caller of the second call gets on success
SecondPath == reconstruct_path(second.nodes, second.result)

BothReturned ==
  /\ second # <<>>
  /\ status \in {"success", "timeout", "failure"}
  /\ second.status \in {"success", "timeout", "failure"}

\* C8 as claimed: two calls with the same start and heuristic return
\* identical statistics, and moves that are identical or equally many.
C8_Original ==
  BothReturned =>
    /\ status = second.status
    /\ expanded = second.expanded
    /\ generated = second.generated
    /\ max_frontier = second.max_frontier
    /\ status = "success" => Len(ReturnedPath) = Len(SecondPath)

\* C8 as amended: two calls with the same start and heuristic that have made
\* the same number of expansions and are both running, or have both
\* returned the same status, are in the same state: same heap, nodes,
\* best_g and counters.  So two calls in which the timeout fires in the
\* same iteration, or in neither, return identical statistics and
\* identical moves.
C8_Deterministic ==
  (second # <<>> /\ expanded = second.expanded /\ status = second.status) =>
    /\ First = second
    /\ status = "success" => ReturnedPath = SecondPath

\* both calls returned a path after a search in which entries of equal f
\* were in the heap
C8_Witness ==
  /\ BothReturned
  /\ status = "success" /\ second.status = "success"
  /\ expanded >= MaxPairDist
  /\ \E a, b \in open_list : a # b /\ a.f = b.f


\* ------------------------------------------------------------------ C11
\* the board with the tiles of cells i and j exchanged
Exchange(state, i, j) ==
  [k \in 1 .. SIZE |->
     IF k - 1 = i THEN At(state, j)
     ELSE IF k - 1 = j THEN At(state, i)
     ELSE state[k]]

\* the pairs of cells of a board that both hold a tile
TilePairs(state) ==
  {p \in Cells \X Cells :
     p[1] < p[2] /\ At(state, p[1]) # 0 /\ At(state, p[2]) # 0}

\* the board the exchanges start from: the tiles in order around a blank
\* in the middle cell, so that every arrangement of the tiles is reached
\* and exchanges reach across the blank
ExchangeRoot == InOrder((SIZE - 1) \div 2)

\* the solvability check applied to one board
Solvability(state) ==
  [inversions |-> inversion_count(state), solvable |-> is_solvable(state)]

ExchangeInit ==
  /\ board = ExchangeRoot
  /\ succs = <<>>
  /\ measured = Solvability(board)
  /\ AstarIdle
  /\ FloodIdle
  /\ NoSecond

\* exchange two tiles of the board and apply inversion_count and
\* is_solvable to the result
ExchangeTiles ==
  /\ \E p \in TilePairs(board) :
       LET other == Exchange(board, p[1], p[2])
       IN  /\ board' = other
           /\ measured' = Solvability(other)
  /\ UNCHANGED <<succs, astar_vars, flood_vars, second>>

ExchangeSpec == ExchangeInit /\ [][ExchangeTiles]_vars

\* C11 as stated: exchanging any two tiles of a board changes
\* inversion_count by exactly +1 or -1
C11_Original ==
  [][board' # board =>
       measured'.inversions - measured.inversions \in {-1, 1}]_vars

\* C11: exchanging any two tiles of a board changes inversion_count by an
\* odd amount, and is_solvable of the board flips
C11_ParityFlips ==
  [][board' # board =>
       /\ Abs(measured'.inversions - measured.inversions) % 2 = 1
       /\ measured'.solvable # measured.solvable]_vars

\* the ordered board with tiles 1 and 3 exchanged: one exchange away from
\* the root, with 3 inversions more and the other is_solvable value
C11_Witness ==
  /\ status = "idle"
  /\ succs = <<>>
  /\ board = Exchange(ExchangeRoot, 0, 2)
  /\ measured.inversions = inversion_count(ExchangeRoot) + 3
  /\ measured.solvable # is_solvable(ExchangeRoot)

\* ------------------------------------------------------------------ C12
\* the walk has applied the heuristics to board
Walked == status = "idle" /\ succs # <<>>

\* C12: on every board, h1_misplaced is at most h2_manhattan
C12_H1AtMostH2 == Walked => measured.h1 <= measured.h2

\* a board away from GOAL on which the two heuristics differ, and (the
\* second conjunct) the moves from it lead to a board on which they agree
C12_Witness ==
  /\ Walked
  /\ 0 < measured.h1
  /\ measured.h1 < measured.h2
  /\ \E k \in 1 .. Len(succs) :
       /\ h1_misplaced(succs[k].state) = h2_manhattan(succs[k].state)
       /\ h1_misplaced(succs[k].state) > 0

\* ------------------------------------------------------------------ C15
\* h does not drop by more than the cost of the move from u to v
ConsistentStep(u, v) ==
  /\ h1_misplaced(u) <= 1 + h1_misplaced(v)
  /\ h2_manhattan(u) <= 1 + h2_manhattan(v)

\* the f of the node the next pop removes
PoppedF(heap) == (CHOOSE e \in HeapLeast(heap) : TRUE).f

\* C15: both heuristics are consistent on every move out of a state that
\* astar expands, and the f of the popped nodes never decreases from one
\* pop to the next
C15_Monotone ==
  [][
     /\ expanded' = expanded + 1 =>
         \A top \in HeapLeast(open_list) :
           LET u == nodes[top.node]
               succ == generate_successors(u.state, u.blank_index)
           IN  \A k \in 1 .. Len(succ) : ConsistentStep(u.state, succ[k].state)
     /\ open_list # {} /\ open_list' # {} =>
         PoppedF(open_list) <= PoppedF(open_list')
  ]_vars

\* C15 on every board: both heuristics are consistent on every move that
\* generate_successors produces
C15_AllBoards ==
  [][board' # board =>
       /\ measured.h1 <= 1 + measured'.h1
       /\ measured.h2 <= 1 + measured'.h2]_vars

\* a run in which the f of the next pop has risen above the f of the
\* start node, with moves that lower h by 1 and moves that raise it by 1
C15_Witness ==
  /\ status = "running"
  /\ expanded >= 2
  /\ open_list # {}
  /\ PoppedF(open_list) > NodeF(nodes[0])
  /\ \E id \in DOMAIN nodes \ {0} : nodes[id].h = nodes[nodes[id].parent].h - 1
  /\ \E id \in DOMAIN nodes \ {0} : nodes[id].h = nodes[nodes[id].parent].h + 1

\* ------------------------------------------------------------------ C13
\* C13 as stated: a node popped and expanded has the g that best_g records
\* for its state at the moment of the pop
C13_PopIsBest ==
  [][expanded' = expanded + 1 =>
       \A top \in HeapLeast(open_list) :
         nodes[top.node].g = best_g[nodes[top.node].state]]_vars

\* ------------------------------------------------------------------ C14
\* the nodes that have been popped from the heap
Popped(ns, heap) == {id \in DOMAIN ns : \A e \in heap : e.node # id}

\* the states that have been popped and expanded
ExpandedStates(ns, heap, res) ==
  {ns[id].state : id \in Popped(ns, heap) \ {res}}

RECURSIVE Distances(_, _, _, _)
\* the number of moves from the boards of DOMAIN dist to every board at
\* most limit moves away, given the boards of level at d moves
Distances(dist, level, d, limit) ==
  IF d = limit \/ level = {} THEN dist
  ELSE LET new == UNION {Successors(s) : s \in level} \ DOMAIN dist
       IN  Distances([b \in DOMAIN dist \cup new |->
                        IF b \in DOMAIN dist THEN dist[b] ELSE d + 1],
                     new, d + 1, limit)

\* C14: a successor is never pushed for a state that has been expanded,
\* and when astar returns a node, best_g of every expanded state is the
\* least number of moves from start to it
C14_NoReopening ==
  [][
     /\ \A id \in DOMAIN nodes' \ DOMAIN nodes :
         nodes'[id].state \notin ExpandedStates(nodes', open_list', result')
     /\ status' = "success" =>
         LET done == ExpandedStates(nodes', open_list', result')
             far == CHOOSE g \in {best_g'[s] : s \in done} \cup {0} :
                      \A s \in done : best_g'[s] <= g
             dist == Distances([b \in {start} |-> 0], {start}, 0, far)
         IN  \A s \in done : s \in DOMAIN dist /\ best_g'[s] = dist[s]
  ]_vars

\* astar has returned a node after expanding a state that a later
\* expansion generated again, and an expanded state that is 3 moves from
\* start
C14_Witness ==
  /\ status = "success"
  /\ \E a, b \in Popped(nodes, open_list) \ {result} :
       /\ a < b
       /\ nodes[a].state \in Successors(nodes[b].state)
       /\ nodes[b].parent # a
  /\ \E s \in ExpandedStates(nodes, open_list, result) : best_g[s] = 3

\* ------------------------------------------------------------------ C16
\* C16: a return with status "timeout" returns no node and leaves the
\* frontier, the nodes, best_g and every counter as they stood at the top
\* of the iteration, and a node is returned only with status "success"
C16_HardAbort ==
  [][
     /\ status' = "timeout" =>
         /\ status = "running"
         /\ result' = -1
         /\ UNCHANGED <<open_list, nodes, best_g, expanded, generated,
                        max_frontier, counter>>
     /\ result' # -1 => status' = "success"
  ]_vars

\* astar has timed out after some expansions with a node of state GOAL at
\* the head of the frontier
C16_Witness ==
  /\ status = "timeout"
  /\ result = -1
  /\ expanded > 0
  /\ \E top \in HeapLeast(open_list) : nodes[top.node].state = GOAL

\* ------------------------------------------------------------------ C17
\* the place of a move label in the order generate_successors produces
MoveRank(label) == CHOOSE k \in 1 .. 4 : <<"U", "D", "L", "R">>[k] = label

\* C17: a pop removes one entry, whose node has the least g + h of the
\* frontier and among those the least counter; the entries pushed by an
\* iteration carry the counters counter, counter + 1, ... in the order the
\* successors were generated, above every counter used before, the start
\* node carries 0, and two entries of the frontier never compare equal
C17_FrontierOrder ==
  [][
     /\ open_list \ open_list' # {} =>
         \E e \in open_list :
           /\ open_list \ open_list' = {e}
           /\ e.f = nodes[e.node].g + nodes[e.node].h
           /\ \A o \in open_list :
                LET fe == nodes[e.node].g + nodes[e.node].h
                    fo == nodes[o.node].g + nodes[o.node].h
                IN  fe < fo \/ (fe = fo /\ e.counter <= o.counter)
     /\ LET pushed == open_list' \ open_list
        IN  /\ {e.counter : e \in pushed} = counter .. counter' - 1
            /\ Cardinality(pushed) = counter' - counter
            /\ \A e \in open_list : e.counter < counter
            /\ \A a, b \in pushed :
                 a.counter < b.counter =>
                   /\ nodes'[a.node].parent = nodes'[b.node].parent
                   /\ MoveRank(nodes'[a.node].move)
                        < MoveRank(nodes'[b.node].move)
     /\ \A e \in open_list' : nodes'[e.node].parent = -1 <=> e.counter = 0
     /\ \A a, b \in open_list' :
          a # b => PriorityLess(a, b) \/ PriorityLess(b, a)
  ]_vars

\* two nodes pushed by the same expansion with the same f: the one pushed
\* first has been popped, the other is still in the frontier
C17_Witness ==
  /\ status = "running"
  /\ \E p \in Popped(nodes, open_list) \ {0} :
       \E o \in open_list :
         /\ nodes[o.node].parent = nodes[p].parent
         /\ o.f = NodeF(nodes[p])
         /\ o.counter > p

\* ------------------------------------------------------------------ C18
\* the least g of the nodes of ns whose state is s
LowestG(ns, s) ==
  LET gs == {ns[id].g : id \in {i \in DOMAIN ns : ns[i].state = s}}
  IN  CHOOSE g \in gs : \A o \in gs : g <= o

\* C18: an expansion pushes a node for a successor exactly when the state
\* has no entry in best_g or new_g is below its entry; no node has a g
\* below the entry of its state, and an entry that is new or has changed
\* is the g of a node just pushed for its state; an entry never disappears
\* or increases; and, when astar returns a node or reaches the expansion
\* bound, every entry is the least g of the nodes ever pushed for its
\* state and is not below the least number of moves from start to it
\* (for the states at most MaxBall moves from start)
C18_BestG ==
  [][
     /\ expanded' = expanded + 1 =>
         \A top \in HeapLeast(open_list) :
           LET current == nodes[top.node]
               succ == generate_successors(current.state, current.blank_index)
           IN  \A k \in 1 .. Len(succ) :
                 (\E id \in DOMAIN nodes' \ DOMAIN nodes :
                    /\ nodes'[id].state = succ[k].state
                    /\ nodes'[id].g = current.g + 1)
                 <=> \/ succ[k].state \notin DOMAIN best_g
                     \/ current.g + 1 < best_g[succ[k].state]
     /\ \A id \in DOMAIN nodes' :
          /\ nodes'[id].state \in DOMAIN best_g'
          /\ best_g'[nodes'[id].state] <= nodes'[id].g
     /\ \A s \in DOMAIN best_g' :
          s \notin DOMAIN best_g \/ best_g'[s] # best_g[s] =>
            \E id \in DOMAIN nodes' \ DOMAIN nodes :
              nodes'[id].state = s /\ nodes'[id].g = best_g'[s]
     /\ \A s \in DOMAIN best_g :
          s \in DOMAIN best_g' /\ best_g'[s] <= best_g[s]
     /\ status' = "success" \/ expanded' = MaxExpanded =>
         LET dist == Distances([b \in {start} |-> 0], {start}, 0, MaxBall)
         IN  \A s \in DOMAIN best_g' :
               /\ best_g'[s] = LowestG(nodes', s)
               /\ best_g'[s] <= MaxBall => s \in DOMAIN dist
               /\ s \in DOMAIN dist => dist[s] <= best_g'[s]
  ]_vars

\* astar has reached the expansion bound in a run that pushed a state
\* twice, the second time with a lower g, which best_g records
C18_Witness ==
  /\ expanded = MaxExpanded
  /\ \E a, b \in DOMAIN nodes :
       /\ a < b
       /\ nodes[a].state = nodes[b].state
       /\ nodes[b].g < nodes[a].g
       /\ best_g[nodes[b].state] = nodes[b].g

\* ------------------------------------------------------------------ C19
\* C19: generated is the number of nodes pushed, the start node included;
\* expanded is the number of nodes popped other than a returned goal
\* node; generated = expanded + frontier size at the top of every
\* iteration (also when the timeout fires there), generated = expanded on
\* "failure", and generated = expanded + frontier size + 1 on "success"
C19_Counters ==
  status # "idle" =>
    /\ generated = Cardinality(DOMAIN nodes)
    /\ expanded = Cardinality(Popped(nodes, open_list) \ {result})
    /\ status \in {"running", "timeout"} =>
         generated = expanded + Cardinality(open_list)
    /\ status = "failure" => open_list = {} /\ generated = expanded
    /\ status = "success" =>
         generated = expanded + Cardinality(open_list) + 1

\* astar has returned a node after some expansions, leaving nodes in the
\* frontier
C19_Witness ==
  /\ status = "success"
  /\ expanded >= 2
  /\ Cardinality(open_list) >= 2
  /\ generated = expanded + Cardinality(open_list) + 1

\* ------------------------------------------------------------------ C20
\* C20: at the top of every iteration and at every return, max_frontier
\* is the largest size the frontier has had at any moment since the start
\* node was pushed, the moments between two pushes of a successor loop
\* included
C20_HighWater == status # "idle" => max_frontier = peak

\* astar has returned with a frontier that is at least 2 nodes below its
\* largest size
C20_Witness ==
  /\ status \in {"success", "timeout"}
  /\ expanded >= 2
  /\ peak >= Cardinality(open_list) + 2
  /\ max_frontier = peak
=========================================================================
